---- MODULE Spec2Model ----
(***************************************************************************)
(* TransformGraph (src/src/transformgraph.cpp): a boost::labeled_graph of  *)
(* named frames (vertices) and measurement edges, with key based edge      *)
(* replacement/removal and a Dijkstra path lookup.                         *)
(*                                                                         *)
(* Vertex descriptors are the positions in the vertex storage (1-based     *)
(* here, 0-based in boost); null_vertex is the descriptor boost returns    *)
(* for a label that is not in the label map.                               *)
(* Transforms are modelled by the permutations of 1..3: a finite           *)
(* non-commutative group, so that composition order and inversion are      *)
(* observable.                                                             *)
(*                                                                         *)
(* WeightedMean and ExplonentialMovingAverageFilter (src/src/filters.cpp)  *)
(* and the Config parser (src/unnamed/part_000) are separate objects with  *)
(* their own variables and their own specifications.  The numbers of the   *)
(* filter are exact fractions, its clock is the variable now.              *)
(***************************************************************************)
EXTENDS Integers, Sequences, FiniteSets, TLC

\* ---------------------------------------------------------------- bounds
MaxFrames == 3
MaxKeys == 2
MaxWeight == 3
MaxCalls == 6

AllNames == <<"A", "B", "C", "D", "E">>
AllKeys == <<"s1", "s2", "s3", "s4">>

Names == {AllNames[i] : i \in 1..MaxFrames}
Keys == {AllKeys[i] : i \in 1..MaxKeys}

VARIABLES vertices, edges, status, call, budget,
          loop, ema, now, fcall, mean, config

vars == <<vertices, edges, status, call, budget, loop, ema, now, fcall, mean, config>>

\* the TransformGraph and its call record
graphVars == <<vertices, edges, status, call>>

\* the removal loop in progress, the filters and the configuration: no
\* TransformGraph call touches them
others == <<loop, ema, now, fcall, mean, config>>

\* ------------------------------------------------------------ transforms
Identity == <<1, 2, 3>>

\* a * b : the transform that applies b first and a second (matrix product)
Compose(a, b) == [i \in 1..3 |-> a[b[i]]]

Inverse(a) == [i \in 1..3 |-> CHOOSE j \in 1..3 : a[j] = i]

Transforms == {t \in [1..3 -> 1..3] : \A i, j \in 1..3 : i # j => t[i] # t[j]}

\* the transforms measurements are drawn from: a transposition and a
\* 3-cycle (they do not commute, the 3-cycle is not its own inverse)
InputTransforms == {<<2, 1, 3>>, <<2, 3, 1>>}

\* ------------------------------------------------------------ the graph
null_vertex == 0

Range(s) == {s[i] : i \in 1..Len(s)}

num_vertices(vs) == Len(vs)

num_edges(es) == Len(es)

\* labeled_graph label map lookup: the descriptor of the vertex labelled
\* name, null_vertex when there is none
vertex_by_label(vs, name) ==
    IF \E i \in 1..Len(vs) : vs[i] = name
    THEN CHOOSE i \in 1..Len(vs) : vs[i] = name
    ELSE null_vertex

\* the measurement handed to updateSensorData
SensorData(key, transform, weight) ==
    [key |-> key, transform |-> transform, weight |-> weight]

\* EdgeInfo::inverse(): same measurement, inverted transform
EdgeInfo_inverse(info) ==
    [key |-> info.key, transform |-> Inverse(info.transform), weight |-> info.weight]

\* one stored edge: endpoints, the edge_weight property and the EdgeInfo
MakeEdge(u, v, w, info) ==
    [source |-> u, target |-> v, weight |-> w, info |-> info]

\* the record of the last call: operation, arguments, effect and result
CallRec(op, from, to, key, removed, added, path, ok, tf) ==
    [op |-> op, from |-> from, to |-> to, key |-> key,
     removed |-> removed, added |-> added, path |-> path, ok |-> ok, tf |-> tf]

NoCall == CallRec("init", "", "", "", 0, 0, <<>>, FALSE, Identity)

\* ------------------------------------------- the objects at construction
\* the numbers of the filters are exact fractions <<numerator, denominator>>
\* with a positive denominator, in lowest terms
RECURSIVE Gcd(_, _)
Gcd(a, b) == IF b = 0 THEN a ELSE Gcd(b, a % b)

Abs(a) == IF a < 0 THEN -a ELSE a

Rat(n, d) ==
    LET g == Gcd(Abs(n), d)
    IN  IF n = 0 THEN <<0, 1>> ELSE <<n \div g, d \div g>>

Zero == Rat(0, 1)

One == Rat(1, 1)

Vector3(x, y, z) == <<Rat(x, 1), Rat(y, 1), Rat(z, 1)>>

\* the members of a filter before the constructor body runs: no channel
\* is initialized, the time of the last value is the zero time
FilterMembers ==
    [m_alpha |-> One,
     m_timeout |-> 0,
     m_scalarAccu |-> Zero,
     m_scalarInitialized |-> FALSE,
     m_vectorAccu |-> Vector3(0, 0, 0),
     m_vecInitialized |-> FALSE,
     m_quatAccu |-> Zero,
     m_quatInitialized |-> FALSE,
     m_timeOfLastValue |-> 0]

\* ExplonentialMovingAverageFilter(alpha, timeout): m_alpha(alpha),
\* m_timeout(timeout)
ExplonentialMovingAverageFilter(alpha, timeout) ==
    [FilterMembers EXCEPT !.m_alpha = alpha, !.m_timeout = timeout]

Channels == {"scalar", "vec3", "quat"}

\* the record of the last filter call: operation, channel, sample, whether
\* checkReinit reset the filter, the time of the previous add to the same
\* channel and the time of the last add to each channel (-1: none)
FilterCall(op, channel, value, fired, prev, lastAdd) ==
    [op |-> op, channel |-> channel, value |-> value, fired |-> fired,
     prev |-> prev, lastAdd |-> lastAdd]

NoFilterCall == FilterCall("init", "", Zero, FALSE, -1, [c \in Channels |-> -1])

\* WeightedMean(): the rotation samples (m_quats has four rows and no
\* column) and the record of the last call: its result and whether it
\* reported an error
WeightedMean ==
    [m_quats |-> <<>>,
     op |-> "init",
     result |-> <<0, 0, 0, 0>>,
     error |-> FALSE]

\* Config(): no entity and no marker; the record of the load: how many
\* documents were loaded, the last one, and whether parsing it threw
Document(entities, markers) == [entities |-> entities, markers |-> markers]

Config ==
    [m_entities |-> <<>>, m_markers |-> <<>>,
     loads |-> 0, doc |-> Document(<<>>, <<>>), threw |-> FALSE]

\* no removal loop is running
NoLoop == [pc |-> "idle", key |-> "", passes |-> 0, matching |-> 0]

OthersInit ==
    /\ loop = NoLoop
    /\ ema = ExplonentialMovingAverageFilter(Rat(1, 2), 0)
    /\ now = 0
    /\ fcall = NoFilterCall
    /\ mean = WeightedMean
    /\ config = Config

Init ==
    /\ vertices = <<>>
    /\ edges = <<>>
    /\ status = "ok"
    /\ call = NoCall
    /\ budget = MaxCalls
    /\ OthersInit

\* every call counts against the number of calls a run may make
Tick == budget > 0 /\ budget' = budget - 1

\* ------------------------------------------------------------- addEntity
\* variant: a vertex is added whether or not the label is known
add_vertex_Always(vs, name) == Append(vs, name)

\* boost::add_vertex(name, m_graph): inserts into the label map first and
\* adds a vertex only when the label is new
add_vertex(vs, name) ==
    IF vertex_by_label(vs, name) # null_vertex THEN vs ELSE Append(vs, name)

AddEntity(name) ==
    /\ status = "ok"
    /\ Tick
    /\ UNCHANGED others
    /\ vertices' = add_vertex(vertices, name)
    /\ edges' = edges
    /\ status' = status
    /\ call' = CallRec("addEntity", name, "", "", 0,
                       Len(add_vertex(vertices, name)) - Len(vertices),
                       <<>>, FALSE, Identity)

\* ------------------------------------------------------- removeEdgeByKey
\* RemovePredicate(key, graph)(edge): the edge carries the key
RemovePredicate(key, e) == e.info.key = key

\* one pass of boost::remove_edge_if(pred, graph): the edges left, in their
\* stored order, and pred.stop, set when the predicate matched an edge
remove_edge_if(es, key) ==
    LET Keep(e) == ~RemovePredicate(key, e)
    IN  [edges |-> SelectSeq(es, Keep),
         stop |-> \E i \in 1..Len(es) : RemovePredicate(key, es[i])]

\* while (true) { pass; if (!pred.stop) return; }
RECURSIVE removeEdgeByKey(_, _)
removeEdgeByKey(es, key) ==
    LET pass == remove_edge_if(es, key)
    IN  IF ~pass.stop THEN pass.edges ELSE removeEdgeByKey(pass.edges, key)

RemoveEdgeByKey(key) ==
    /\ status = "ok"
    /\ Tick
    /\ UNCHANGED others
    /\ vertices' = vertices
    /\ edges' = removeEdgeByKey(edges, key)
    /\ status' = status
    /\ call' = CallRec("removeEdgeByKey", "", "", key,
                       Len(edges) - Len(removeEdgeByKey(edges, key)), 0,
                       <<>>, FALSE, Identity)

\* ------------------------------------- removeEdgeByKey, pass by pass
\* the passes one call of removeEdgeByKey may take in the model
MaxPasses == 4

\* variant: the test after the pass never leaves the loop
removeEdgeByKey_pass_NeverReturns(es, key) ==
    [edges |-> remove_edge_if(es, key).edges, returned |-> FALSE]

\* one turn of `while (true)`: a predicate is made, remove_edge_if runs,
\* and the function returns when the predicate did not match
removeEdgeByKey_pass(es, key) ==
    LET pred == remove_edge_if(es, key)
    IN  [edges |-> pred.edges, returned |-> ~pred.stop]

\* the call is entered: nothing has been removed yet
RemoveEdgeByKey_Enter(key) ==
    /\ status = "ok"
    /\ loop.pc # "pass"
    /\ Tick
    /\ loop' = [pc |-> "pass", key |-> key, passes |-> 0,
                matching |-> Cardinality({i \in 1..Len(edges) :
                                             RemovePredicate(key, edges[i])})]
    /\ UNCHANGED <<vertices, edges, status, call>>
    /\ UNCHANGED <<ema, now, fcall, mean, config>>

\* one pass of the loop of the call in progress
RemoveEdgeByKey_Pass ==
    LET body == removeEdgeByKey_pass(edges, loop.key)
    IN  /\ status = "ok"
        /\ loop.pc = "pass"
        /\ loop.passes < MaxPasses
        /\ edges' = body.edges
        /\ loop' = [loop EXCEPT !.passes = @ + 1,
                                !.pc = IF body.returned THEN "returned" ELSE "pass"]
        /\ call' = IF body.returned
                   THEN CallRec("removeEdgeByKey", "", "", loop.key,
                                loop.matching, 0, <<>>, FALSE, Identity)
                   ELSE call
        /\ UNCHANGED <<vertices, status, budget>>
        /\ UNCHANGED <<ema, now, fcall, mean, config>>

\* ------------------------------------------------------ updateSensorData
\* variant: the new pair is added without removing the key's edges first
updateSensorData_NoRemove(vs, es, from, to, sensorData) ==
    LET u == vertex_by_label(vs, from)
        v == vertex_by_label(vs, to)
    IN  es \o <<MakeEdge(u, v, 1, sensorData),
                MakeEdge(v, u, 1, EdgeInfo_inverse(sensorData))>>

\* variant: the edge back carries the measurement as it is, not inverted
updateSensorData_NoInverse(vs, es, from, to, sensorData) ==
    LET u == vertex_by_label(vs, from)
        v == vertex_by_label(vs, to)
    IN  removeEdgeByKey(es, sensorData.key)
            \o <<MakeEdge(u, v, 1, sensorData), MakeEdge(v, u, 1, sensorData)>>

\* the edge list after updateSensorData on two registered frames: the
\* edges of the key are removed, then the edge forth and the edge back are
\* added, both with edge weight 1.0
updateSensorData(vs, es, from, to, sensorData) ==
    LET u == vertex_by_label(vs, from)
        v == vertex_by_label(vs, to)
        info == sensorData
    IN  removeEdgeByKey(es, sensorData.key)
            \o <<MakeEdge(u, v, 1, info), MakeEdge(v, u, 1, EdgeInfo_inverse(info))>>

\* add_edge_by_label with a label that is not registered hands null_vertex
\* to boost::add_edge: the vertex storage is indexed out of bounds (after
\* being resized to null_vertex + 1, which wraps to 0).  The process either
\* aborts or goes on with the storage emptied; both end the model's run.
UpdateSensorData(from, to, sensorData) ==
    /\ status = "ok"
    /\ Tick
    /\ UNCHANGED others
    /\ IF vertex_by_label(vertices, from) # null_vertex
          /\ vertex_by_label(vertices, to) # null_vertex
       THEN /\ vertices' = vertices
            /\ edges' = updateSensorData(vertices, edges, from, to, sensorData)
            /\ status' = status
       ELSE \/ /\ status' = "aborted"
               /\ vertices' = vertices
               /\ edges' = removeEdgeByKey(edges, sensorData.key)
            \/ /\ status' = "corrupt"
               /\ vertices' = <<>>
               /\ edges' = <<>>
    /\ call' = CallRec("updateSensorData", from, to, sensorData.key,
                       Len(edges) - Len(removeEdgeByKey(edges, sensorData.key)), 2,
                       <<>>, FALSE, sensorData.transform)

\* -------------------------------------------------------- removeAllEdges
\* variant: the edges of both directions are erased
remove_edge_BothWays(es, u, v) ==
    LET Keep(e) == ~((e.source = u /\ e.target = v) \/ (e.source = v /\ e.target = u))
    IN  SelectSeq(es, Keep)

\* boost::remove_edge(u, v, graph) on a directed graph: erases from the
\* out-edge list of u every edge whose target is v
remove_edge(es, u, v) ==
    LET Keep(e) == ~(e.source = u /\ e.target = v)
    IN  SelectSeq(es, Keep)

\* from unregistered: the out-edge list of null_vertex is read out of
\* bounds (abort, or the call returns over garbage).  to unregistered and
\* from registered: no out-edge has target null_vertex, nothing is erased.
RemoveAllEdges(from, to) ==
    LET u == vertex_by_label(vertices, from)
        v == vertex_by_label(vertices, to)
    IN  /\ status = "ok"
        /\ Tick
        /\ UNCHANGED others
        /\ vertices' = vertices
        /\ IF u # null_vertex
           THEN /\ edges' = remove_edge(edges, u, v)
                /\ status' = status
           ELSE /\ edges' = edges
                /\ status' \in {"aborted", "corrupt"}
        /\ call' = CallRec("removeAllEdges", from, to, "",
                           IF u # null_vertex
                           THEN Len(edges) - Len(remove_edge(edges, u, v)) ELSE 0,
                           0, <<>>, FALSE, Identity)

\* ------------------------------------------------------------ lookupPath
\* boost::dijkstra_shortest_paths with its default 4-ary indirect heap.
\* Distances are whole numbers (every stored edge weight is 1.0); Inf is
\* the initial distance of a vertex.
Inf == 1000000

Swap(Q, i, j) == [Q EXCEPT ![i] = Q[j], ![j] = Q[i]]

\* d_ary_heap_indirect::preserve_heap_property_up
RECURSIVE SiftUp(_, _, _)
SiftUp(Q, idx, d) ==
    IF idx = 1 THEN Q
    ELSE LET parent == ((idx - 2) \div 4) + 1
         IN  IF d[Q[idx]] < d[Q[parent]]
             THEN SiftUp(Swap(Q, idx, parent), parent, d)
             ELSE Q

\* d_ary_heap_indirect::preserve_heap_property_down
RECURSIVE SiftDown(_, _, _)
SiftDown(Q, idx, d) ==
    LET first == 4 * (idx - 1) + 2
        kids == {c \in first..(first + 3) : c <= Len(Q)}
    IN  IF kids = {} THEN Q
        ELSE LET best == CHOOSE c \in kids : \A c2 \in kids :
                            \/ d[Q[c]] < d[Q[c2]]
                            \/ d[Q[c]] = d[Q[c2]] /\ c <= c2
             IN  IF d[Q[best]] < d[Q[idx]]
                 THEN SiftDown(Swap(Q, idx, best), best, d)
                 ELSE Q

HeapPush(Q, v, d) == SiftUp(Append(Q, v), Len(Q) + 1, d)

HeapPop(Q, d) ==
    IF Len(Q) = 1 THEN <<>>
    ELSE SiftDown(<<Q[Len(Q)]>> \o SubSeq(Q, 2, Len(Q) - 1), 1, d)

HeapUpdate(Q, v, d) ==
    SiftUp(Q, CHOOSE i \in 1..Len(Q) : Q[i] = v, d)

out_edges(es, u) ==
    LET From(e) == e.source = u
    IN  SelectSeq(es, From)

\* the out-edges of u, in stored order: tree_edge / gray_target with relax
RECURSIVE ExamineEdges(_, _, _, _)
ExamineEdges(st, u, outs, i) ==
    IF i > Len(outs) THEN st
    ELSE LET e == outs[i]
             v == e.target
             better == st.d[u] + e.weight < st.d[v]
             d2 == IF better THEN [st.d EXCEPT ![v] = st.d[u] + e.weight] ELSE st.d
             p2 == IF better THEN [st.p EXCEPT ![v] = u] ELSE st.p
         IN  IF st.color[v] = "white"
             THEN ExamineEdges([d |-> d2, p |-> p2,
                                color |-> [st.color EXCEPT ![v] = "gray"],
                                Q |-> HeapPush(st.Q, v, d2)], u, outs, i + 1)
             ELSE IF st.color[v] = "gray"
             THEN ExamineEdges([d |-> d2, p |-> p2, color |-> st.color,
                                Q |-> IF better THEN HeapUpdate(st.Q, v, d2) ELSE st.Q],
                               u, outs, i + 1)
             ELSE ExamineEdges(st, u, outs, i + 1)

\* breadth_first_visit: pop the closest vertex, examine its out-edges
RECURSIVE Visit(_, _)
Visit(st, es) ==
    IF st.Q = <<>> THEN st
    ELSE LET u == st.Q[1]
             popped == [st EXCEPT !.Q = HeapPop(st.Q, st.d)]
             done == ExamineEdges(popped, u, out_edges(es, u), 1)
         IN  Visit([done EXCEPT !.color[u] = "black"], es)

\* the predecessor and distance of every vertex, as Dijkstra writes them
dijkstra_shortest_paths(vs, es, start) ==
    LET V == 1..Len(vs)
    IN  Visit([d |-> [v \in V |-> IF v = start THEN 0 ELSE Inf],
               p |-> [v \in V |-> v],
               color |-> [v \in V |-> IF v = start THEN "gray" ELSE "white"],
               Q |-> <<start>>], es)

\* boost::edge(u, v, graph).second
HasEdge(es, u, v) == \E i \in 1..Len(es) : es[i].source = u /\ es[i].target = v

\* travel from goal to start: the (source, target) pairs pushed, goal first
RECURSIVE WalkBack(_, _, _, _)
WalkBack(es, p, v, path) ==
    LET u == p[v]
    IN  IF u = v THEN path
        ELSE IF ~HasEdge(es, u, v) THEN WalkBack(es, p, u, path)
        ELSE WalkBack(es, p, u, Append(path, <<u, v>>))

Reverse(s) == [i \in 1..Len(s) |-> s[Len(s) + 1 - i]]

\* verticesInPath: the source of the first edge, then every target
VerticesInPath(vs, path) ==
    LET r == Reverse(path)
    IN  IF r = <<>> THEN <<>>
        ELSE <<vs[r[1][1]]>> \o [i \in 1..Len(r) |-> vs[r[i][2]]]

\* the length of p and of d: std::vector<..>(boost::num_edges(m_graph))
ArrayLength(es) == num_edges(es)

\* the descriptors p and d are indexed with: Dijkstra initialises and the
\* loop over boost::vertices reads the element of every vertex, the walk
\* back starts at p[goal], d[goal] is returned
IndicesUsed(vs, from, to) ==
    (1..num_vertices(vs)) \cup {vertex_by_label(vs, from), vertex_by_label(vs, to)}

\* descriptor v (0-based v - 1 in the program) is an element of a vector
\* of the given length; null_vertex is the largest descriptor value
InBounds(v, length) == v # null_vertex /\ v - 1 < length

\* what lookupPath returns when both labels are registered and every
\* access to p and d lands on the value Dijkstra wrote
lookupPath(vs, es, from, to) ==
    LET start == vertex_by_label(vs, from)
        goal == vertex_by_label(vs, to)
        sp == dijkstra_shortest_paths(vs, es, start)
    IN  VerticesInPath(vs, WalkBack(es, sp.p, goal, <<>>))

\* p and d are vectors of num_edges elements indexed by vertex descriptor.
\* An access outside them is undefined: the process aborts, or the access
\* lands in memory that holds what Dijkstra wrote and the call completes.
\* With a label that is not registered start or goal is null_vertex, p and
\* d are indexed far out of bounds and the walk starts from garbage: the
\* process aborts, or the call returns the walk from some vertex.
GarbagePaths(vs, es) ==
    {<<>>} \cup {lookupPath(vs, es, a, b) : a, b \in Range(vs)}

LookupPathOutcomes(vs, es, from, to) ==
    IF vertex_by_label(vs, from) = null_vertex \/ vertex_by_label(vs, to) = null_vertex
    THEN {[status |-> "aborted", path |-> <<>>]}
            \cup {[status |-> "ok", path |-> g] : g \in GarbagePaths(vs, es)}
    ELSE IF num_vertices(vs) > num_edges(es)
    THEN {[status |-> "aborted", path |-> <<>>],
          [status |-> "ok", path |-> lookupPath(vs, es, from, to)]}
    ELSE {[status |-> "ok", path |-> lookupPath(vs, es, from, to)]}

LookupPath(from, to) ==
    /\ status = "ok"
    /\ Tick
    /\ UNCHANGED others
    /\ vertices' = vertices
    /\ edges' = edges
    /\ \E o \in LookupPathOutcomes(vertices, edges, from, to) :
          /\ status' = o.status
          /\ call' = CallRec("lookupPath", from, to, "", 0, 0, o.path, FALSE, Identity)

\* ---------------------------------------------------------- canTransform
CanTransform(from, to) ==
    /\ status = "ok"
    /\ Tick
    /\ UNCHANGED others
    /\ vertices' = vertices
    /\ edges' = edges
    /\ \E o \in LookupPathOutcomes(vertices, edges, from, to) :
          /\ status' = o.status
          /\ call' = CallRec("canTransform", from, to, "", 0, 0, o.path,
                             o.status = "ok" /\ o.path # <<>>, Identity)

\* ------------------------------------------------------- lookupTransform
\* Empty path: a default constructed tf2::Transform, whose members are not
\* initialized, is returned.  Non-empty path: control reaches the end of
\* the function without a return statement.  Either way the caller reads an
\* indeterminate transform (or, without a return, the process aborts).
LookupTransformOutcomes(vs, es, from, to) ==
    UNION {IF o.status # "ok"
           THEN {[status |-> o.status, path |-> o.path, tf |-> Identity]}
           ELSE {[status |-> "ok", path |-> o.path, tf |-> t] : t \in Transforms}
                    \cup (IF o.path = <<>> THEN {}
                          ELSE {[status |-> "aborted", path |-> o.path, tf |-> Identity]})
           : o \in LookupPathOutcomes(vs, es, from, to)}

LookupTransform(from, to) ==
    /\ status = "ok"
    /\ Tick
    /\ UNCHANGED others
    /\ vertices' = vertices
    /\ edges' = edges
    /\ \E o \in LookupTransformOutcomes(vertices, edges, from, to) :
          /\ status' = o.status
          /\ call' = CallRec("lookupTransform", from, to, "", 0, 0, o.path, FALSE, o.tf)

\* ----------------------------------- ExplonentialMovingAverageFilter
\* the time the filter may see, in clock ticks
MaxTime == 4

RAdd(a, b) == Rat(a[1] * b[2] + b[1] * a[2], a[2] * b[2])

RSub(a, b) == Rat(a[1] * b[2] - b[1] * a[2], a[2] * b[2])

RMul(a, b) == Rat(a[1] * b[1], a[2] * b[2])

\* tf2::Vector3: scalar * vector and vector + vector
VScale(r, v) == [i \in 1..3 |-> RMul(r, v[i])]

VAdd(v, w) == [i \in 1..3 |-> RAdd(v[i], w[i])]

\* m_quatAccu.slerp(quat, t) for rotations about one axis that are less
\* than half a turn apart (a rotation is its angle in degrees): the
\* rotation the fraction t of the way from the accumulator to quat
slerp(accu, quat, t) == RAdd(accu, RMul(t, RSub(quat, accu)))

\* reset(): the three initialized flags are cleared, nothing else
reset(e) ==
    [e EXCEPT !.m_scalarInitialized = FALSE,
              !.m_quatInitialized = FALSE,
              !.m_vecInitialized = FALSE]

\* variant: the filter expires only after more than the timeout
checkReinit_Late(e, t) ==
    IF e.m_timeout = 0 THEN e
    ELSE IF t - e.m_timeOfLastValue > e.m_timeout THEN reset(e) ELSE e

\* variant: a timeout of zero expires like any other timeout
checkReinit_ZeroExpires(e, t) ==
    IF t - e.m_timeOfLastValue >= e.m_timeout THEN reset(e) ELSE e

\* variant: expiry clears no flag
checkReinit_Never(e, t) == e

\* checkReinit() at time t: nothing with a zero timeout; otherwise the
\* filter is reset when the last value is at least the timeout old
checkReinit(e, t) ==
    IF e.m_timeout = 0 THEN e
    ELSE IF t - e.m_timeOfLastValue >= e.m_timeout THEN reset(e) ELSE e

\* variant: the weights of the sample and of the estimate are swapped
addScalar_Swapped(e, scalar, t) ==
    LET c == checkReinit(e, t)
    IN  [c EXCEPT !.m_scalarAccu =
                      IF c.m_scalarInitialized
                      THEN RAdd(RMul(RSub(One, c.m_alpha), scalar),
                                RMul(c.m_alpha, c.m_scalarAccu))
                      ELSE scalar,
                  !.m_scalarInitialized = TRUE,
                  !.m_timeOfLastValue = t]

\* addScalar(scalar) at time t
addScalar(e, scalar, t) ==
    LET c == checkReinit(e, t)
    IN  [c EXCEPT !.m_scalarAccu =
                      IF c.m_scalarInitialized
                      THEN RAdd(RMul(c.m_alpha, scalar),
                                RMul(RSub(One, c.m_alpha), c.m_scalarAccu))
                      ELSE scalar,
                  !.m_scalarInitialized = TRUE,
                  !.m_timeOfLastValue = t]

\* addVec3(vec) at time t
addVec3(e, vec, t) ==
    LET c == checkReinit(e, t)
    IN  [c EXCEPT !.m_vectorAccu =
                      IF c.m_vecInitialized
                      THEN VAdd(VScale(c.m_alpha, vec),
                                VScale(RSub(One, c.m_alpha), c.m_vectorAccu))
                      ELSE vec,
                  !.m_vecInitialized = TRUE,
                  !.m_timeOfLastValue = t]

\* addQuat(quat) at time t
addQuat(e, quat, t) ==
    LET c == checkReinit(e, t)
    IN  [c EXCEPT !.m_quatAccu =
                      IF c.m_quatInitialized
                      THEN slerp(c.m_quatAccu, quat, c.m_alpha)
                      ELSE quat,
                  !.m_quatInitialized = TRUE,
                  !.m_timeOfLastValue = t]

\* the estimate and the initialized flag of a channel
Accu(e, c) ==
    CASE c = "scalar" -> e.m_scalarAccu
      [] c = "vec3" -> e.m_vectorAccu
      [] c = "quat" -> e.m_quatAccu

Initialized(e, c) ==
    CASE c = "scalar" -> e.m_scalarInitialized
      [] c = "vec3" -> e.m_vecInitialized
      [] c = "quat" -> e.m_quatInitialized

\* checkReinit() resets the filter at time t
Expired(e, t) == e.m_timeout # 0 /\ t - e.m_timeOfLastValue >= e.m_timeout

\* what a call of add leaves in the call record
Added(op, c, value) ==
    FilterCall(op, c, value, Expired(ema, now), fcall.lastAdd[c],
               [fcall.lastAdd EXCEPT ![c] = now])

AddScalar(scalar) ==
    /\ Tick
    /\ ema' = addScalar(ema, scalar, now)
    /\ fcall' = Added("addScalar", "scalar", scalar)
    /\ UNCHANGED <<now, loop, mean, config>>
    /\ UNCHANGED graphVars

AddVec3(vec) ==
    /\ Tick
    /\ ema' = addVec3(ema, vec, now)
    /\ fcall' = Added("addVec3", "vec3", vec)
    /\ UNCHANGED <<now, loop, mean, config>>
    /\ UNCHANGED graphVars

AddQuat(quat) ==
    /\ Tick
    /\ ema' = addQuat(ema, quat, now)
    /\ fcall' = Added("addQuat", "quat", quat)
    /\ UNCHANGED <<now, loop, mean, config>>
    /\ UNCHANGED graphVars

Reset ==
    /\ Tick
    /\ ema' = reset(ema)
    /\ fcall' = FilterCall("reset", "", Zero, FALSE, -1, fcall.lastAdd)
    /\ UNCHANGED <<now, loop, mean, config>>
    /\ UNCHANGED graphVars

\* setAlpha(alpha): m_alpha = alpha
setAlpha(e, alpha) == [e EXCEPT !.m_alpha = alpha]

\* setTimeout(timeout): m_timeout = timeout
setTimeout(e, timeout) == [e EXCEPT !.m_timeout = timeout]

SetAlpha(alpha) ==
    /\ Tick
    /\ ema' = setAlpha(ema, alpha)
    /\ fcall' = FilterCall("setAlpha", "", alpha, FALSE, -1, fcall.lastAdd)
    /\ UNCHANGED <<now, loop, mean, config>>
    /\ UNCHANGED graphVars

SetTimeout(timeout) ==
    /\ Tick
    /\ ema' = setTimeout(ema, timeout)
    /\ fcall' = FilterCall("setTimeout", "", Rat(timeout, 1), FALSE, -1, fcall.lastAdd)
    /\ UNCHANGED <<now, loop, mean, config>>
    /\ UNCHANGED graphVars

\* ros::Time::now() moves on between two calls
Advance(dt) ==
    /\ now + dt <= MaxTime
    /\ now' = now + dt
    /\ UNCHANGED <<ema, fcall, budget, loop, mean, config>>
    /\ UNCHANGED graphVars

\* the constructor arguments and the samples
Alphas == {Rat(1, 4), Rat(1, 2)}

Timeouts == {0, 2}

Scalars == {Rat(10, 1), Rat(20, 1)}

Vectors == {Vector3(1, 0, 0), Vector3(0, 2, 0)}

Rotations == {Rat(0, 1), Rat(90, 1)}

InitFilter ==
    /\ vertices = <<>>
    /\ edges = <<>>
    /\ status = "ok"
    /\ call = NoCall
    /\ budget = MaxCalls - 2
    /\ loop = NoLoop
    /\ ema \in {ExplonentialMovingAverageFilter(a, t) : a \in Alphas, t \in Timeouts}
    /\ now = 0
    /\ fcall = NoFilterCall
    /\ mean = WeightedMean
    /\ config = Config

NextFilter ==
    \/ \E scalar \in Scalars : AddScalar(scalar)
    \/ \E vec \in Vectors : AddVec3(vec)
    \/ \E quat \in Rotations : AddQuat(quat)
    \/ Reset
    \/ \E alpha \in Alphas : SetAlpha(alpha)
    \/ \E timeout \in Timeouts : SetTimeout(timeout)
    \/ \E dt \in 1..2 : Advance(dt)

SpecFilter == InitFilter /\ [][NextFilter]_vars

\* ---------------------------------------------------------- WeightedMean
\* addQuat(quat, weight): one more column, weight * (x, y, z, w)
WeightedMean_addQuat(m_quats, quat, weight) ==
    Append(m_quats, [i \in 1..4 |-> weight * quat[i]])

\* reset(): m_quats = Eigen::Matrix4Xd(), four rows and no column
WeightedMean_reset(m_quats) == <<>>

\* m_quats * m_quats.transpose() for samples that lie on the coordinate
\* axes: the matrix is diagonal, this is its diagonal (all zero without a
\* sample)
Diagonal(m_quats) ==
    LET RECURSIVE Sum(_, _)
        Sum(i, n) == IF n = 0 THEN 0
                     ELSE m_quats[n][i] * m_quats[n][i] + Sum(i, n - 1)
    IN  [i \in 1..4 |-> Sum(i, Len(m_quats))]

\* SelfAdjointEigenSolver on a diagonal matrix: the eigenvalues are the
\* diagonal entries and the eigenvectors the unit vectors, put in
\* increasing order of the eigenvalues by a selection sort that takes the
\* first smallest of the rest
RECURSIVE SortEigen(_, _)
SortEigen(ev, i) ==
    IF i >= Len(ev) THEN ev
    ELSE LET k == CHOOSE k \in i..Len(ev) :
                      /\ \A j \in i..Len(ev) : ev[k].value <= ev[j].value
                      /\ \A j \in i..(k - 1) : ev[j].value > ev[k].value
         IN  SortEigen(IF k > i THEN Swap(ev, i, k) ELSE ev, i + 1)

SelfAdjointEigenSolver(diag) ==
    SortEigen([i \in 1..4 |-> [value |-> diag[i], axis |-> i]], 1)

\* weightedMeanQuat(): the eigenvector of the first eigenvalue of largest
\* magnitude (index starts at 0, maxVal at -1.0, the test is >); the
\* number of samples is not looked at
weightedMeanQuat(m_quats) ==
    LET solver == SelfAdjointEigenSolver(Diagonal(m_quats))
        index == CHOOSE i \in 1..4 :
                     /\ \A j \in 1..4 : Abs(solver[j].value) <= Abs(solver[i].value)
                     /\ \A j \in 1..(i - 1) : Abs(solver[j].value) < Abs(solver[i].value)
    IN  [c \in 1..4 |-> IF c = solver[index].axis THEN 1 ELSE 0]

MeanAddQuat(quat, weight) ==
    /\ Tick
    /\ mean' = [mean EXCEPT !.m_quats = WeightedMean_addQuat(@, quat, weight),
                            !.op = "addQuat"]
    /\ UNCHANGED <<loop, ema, now, fcall, config>>
    /\ UNCHANGED graphVars

MeanReset ==
    /\ Tick
    /\ mean' = [mean EXCEPT !.m_quats = WeightedMean_reset(@), !.op = "reset"]
    /\ UNCHANGED <<loop, ema, now, fcall, config>>
    /\ UNCHANGED graphVars

\* the function has one return statement and throws nothing: a
\* quaternion is returned and no error is reported
MeanWeightedMeanQuat ==
    /\ Tick
    /\ mean' = [mean EXCEPT !.op = "weightedMeanQuat",
                            !.result = weightedMeanQuat(mean.m_quats),
                            !.error = FALSE]
    /\ UNCHANGED <<loop, ema, now, fcall, config>>
    /\ UNCHANGED graphVars

\* the rotation samples: the identity, half turns about x and about z
\* (x, y, z, w), with a light or a heavy weight
Quaternions == {<<0, 0, 0, 1>>, <<1, 0, 0, 0>>, <<0, 0, -1, 0>>}

Weights == {1, MaxWeight}

InitMean ==
    /\ vertices = <<>>
    /\ edges = <<>>
    /\ status = "ok"
    /\ call = NoCall
    /\ budget = MaxCalls - 2
    /\ OthersInit

NextMean ==
    \/ \E quat \in Quaternions : \E weight \in Weights : MeanAddQuat(quat, weight)
    \/ MeanReset
    \/ MeanWeightedMeanQuat

SpecMean == InitMean /\ [][NextMean]_vars

\* ---------------------------------------------------------------- Config
\* the entities and the markers one document may list
MaxEntries == 2

\* a transform node of the document: the number of elements of its rot
\* and of its origin sequence
TransformNode(rot, origin) == [rot |-> rot, origin |-> origin]

\* parseTransform(node): a wrong size is logged (ROS_ERROR) and parsing
\* goes on; rot[0..3] and origin[0..2] are then converted with
\* as<double>(), which throws for an element the sequence does not have
parseTransform(node) ==
    [threw |-> node.rot < 4 \/ node.origin < 3,
     transf |-> TransformNode(4, 3)]

\* the loop over entity["sensors"]: the sensors parsed, up to the first
\* transform that throws
RECURSIVE parseSensors(_, _, _)
parseSensors(sensors, i, sensorList) ==
    IF i > Len(sensors) THEN [threw |-> FALSE, sensors |-> sensorList]
    ELSE LET t == parseTransform(sensors[i])
         IN  IF t.threw THEN [threw |-> TRUE, sensors |-> sensorList]
             ELSE parseSensors(sensors, i + 1, Append(sensorList, t.transf))

\* the loop over node["entities"]: an entity is pushed to m_entities once
\* its sensors are parsed
RECURSIVE parseEntities(_, _, _)
parseEntities(entities, i, m_entities) ==
    IF i > Len(entities) THEN [threw |-> FALSE, m_entities |-> m_entities]
    ELSE LET sensors == parseSensors(entities[i].sensors, 1, <<>>)
         IN  IF sensors.threw THEN [threw |-> TRUE, m_entities |-> m_entities]
             ELSE parseEntities(entities, i + 1,
                      Append(m_entities, [name |-> entities[i].name,
                                          sensors |-> sensors.sensors]))

\* the loop over node["markers"]
RECURSIVE parseMarkers(_, _, _)
parseMarkers(markers, i, m_markers) ==
    IF i > Len(markers) THEN [threw |-> FALSE, m_markers |-> m_markers]
    ELSE LET t == parseTransform(markers[i].transform)
         IN  IF t.threw THEN [threw |-> TRUE, m_markers |-> m_markers]
             ELSE parseMarkers(markers, i + 1,
                      Append(m_markers, [id |-> markers[i].id, transf |-> t.transf]))

\* parseRoot(node): the entities, then the markers; an exception leaves
\* the function with what was pushed before it
parseRoot(cfg, node) ==
    LET e == parseEntities(node.entities, 1, cfg.m_entities)
        m == parseMarkers(node.markers, 1, cfg.m_markers)
    IN  IF e.threw
        THEN [m_entities |-> e.m_entities, m_markers |-> cfg.m_markers, threw |-> TRUE]
        ELSE [m_entities |-> e.m_entities, m_markers |-> m.m_markers, threw |-> m.threw]

\* loadFromString(input) on a configuration that has loaded nothing yet
LoadFromString(node) ==
    LET r == parseRoot(config, node)
    IN  /\ config.loads = 0
        /\ config' = [m_entities |-> r.m_entities, m_markers |-> r.m_markers,
                      loads |-> config.loads + 1, doc |-> node, threw |-> r.threw]
        /\ UNCHANGED <<loop, ema, now, fcall, mean, budget>>
        /\ UNCHANGED graphVars

\* the documents: transforms of the right size, with a rot or an origin
\* that is too short, and with a rot that is too long
TransformNodes ==
    {TransformNode(4, 3), TransformNode(3, 3), TransformNode(5, 3), TransformNode(4, 2)}

SeqsUpTo(S, n) == UNION {[1..k -> S] : k \in 0..n}

EntityNodes(i) ==
    {[name |-> i, sensors |-> ss] : ss \in SeqsUpTo(TransformNodes, 1)}

MarkerNodes(i) == {[id |-> i, transform |-> t] : t \in TransformNodes}

Documents ==
    {Document(es, ms) :
        es \in {e \in SeqsUpTo(UNION {EntityNodes(i) : i \in 1..MaxEntries}, MaxEntries) :
                   \A i \in 1..Len(e) : e[i].name = i},
        ms \in {m \in SeqsUpTo(UNION {MarkerNodes(i) : i \in 1..MaxEntries}, MaxEntries) :
                   \A i \in 1..Len(m) : m[i].id = i}}

NextConfig == \E node \in Documents : LoadFromString(node)

SpecConfig == Init /\ [][NextConfig]_vars

\* ------------------------------------------------------------------ Spec
Registered == Range(vertices)

\* the names addEntity is called with: a registered name, or the next
\* name of AllNames that is not registered yet (the graph uses a name only
\* as a label, so the order in which new names arrive is fixed)
NewNames ==
    Registered \cup {AllNames[i] : i \in {Len(vertices) + 1} \cap (1..MaxFrames)}

\* measurements that carry the default weight
Measurements == {SensorData(k, t, 1) : k \in Keys, t \in InputTransforms}

\* the graph under calls that name registered frames only
Next ==
    \/ \E name \in NewNames : AddEntity(name)
    \/ \E from \in Registered : \E to \in Registered : \E sd \in Measurements :
          UpdateSensorData(from, to, sd)
    \/ \E from \in Registered : \E to \in Registered : RemoveAllEdges(from, to)
    \/ \E key \in Keys : RemoveEdgeByKey(key)

Spec == Init /\ [][Next]_vars

\* the graph under calls that name any frame, registered or not
NextUnknown ==
    \/ \E name \in NewNames : AddEntity(name)
    \/ \E from \in Names : \E to \in Names : \E sd \in Measurements :
          UpdateSensorData(from, to, sd)
    \/ \E from \in Names : \E to \in Names : RemoveAllEdges(from, to)
    \/ \E key \in Keys : RemoveEdgeByKey(key)

SpecUnknown == Init /\ [][NextUnknown]_vars

\* the graph and its path queries, for any frame name
NextPath ==
    \/ \E name \in NewNames : AddEntity(name)
    \/ \E from \in Registered : \E to \in Registered : \E sd \in Measurements :
          UpdateSensorData(from, to, sd)
    \/ \E from \in Registered : \E to \in Registered : RemoveAllEdges(from, to)
    \/ \E key \in Keys : RemoveEdgeByKey(key)
    \/ \E from \in Names : \E to \in Names : LookupPath(from, to)
    \/ \E from \in Names : \E to \in Names : CanTransform(from, to)

SpecPath == Init /\ [][NextPath]_vars

\* measurements and transform queries between registered frames
NextTransform ==
    \/ \E name \in NewNames : AddEntity(name)
    \/ \E from \in Registered : \E to \in Registered : \E sd \in Measurements :
          UpdateSensorData(from, to, sd)
    \/ \E from \in Registered : \E to \in Registered : LookupTransform(from, to)

SpecTransform == Init /\ [][NextTransform]_vars

\* measurements of one transform with a light or a heavy weight, on one
\* key more and over runs one call longer (three measured frame pairs and
\* a query), and path queries between registered frames
WeightedMeasurements ==
    {SensorData(AllKeys[i], <<2, 3, 1>>, w) : i \in 1..(MaxKeys + 1), w \in {1, MaxWeight}}

InitWeights ==
    /\ vertices = <<>>
    /\ edges = <<>>
    /\ status = "ok"
    /\ call = NoCall
    /\ budget = MaxCalls + 1
    /\ OthersInit

NextWeights ==
    \/ \E name \in NewNames : AddEntity(name)
    \/ \E from \in Registered : \E to \in Registered \ {from} :
          \E sd \in WeightedMeasurements : UpdateSensorData(from, to, sd)
    \/ \E from \in Registered : \E to \in Registered : LookupPath(from, to)

SpecWeights == InitWeights /\ [][NextWeights]_vars

\* the graph with removeEdgeByKey taken pass by pass; no other call runs
\* while the loop does (the graph is used from one thread)
InitLoop ==
    /\ vertices = <<>>
    /\ edges = <<>>
    /\ status = "ok"
    /\ call = NoCall
    /\ budget = MaxCalls - 1
    /\ OthersInit

NextLoop ==
    \/ \E name \in NewNames : loop.pc # "pass" /\ AddEntity(name)
    \/ \E from \in Registered : \E to \in Registered : \E sd \in Measurements :
          loop.pc # "pass" /\ UpdateSensorData(from, to, sd)
    \/ \E key \in Keys : RemoveEdgeByKey_Enter(key)
    \/ RemoveEdgeByKey_Pass

SpecLoop == InitLoop /\ [][NextLoop]_vars

\* ================================================================ claims
EdgesWithKey(es, k) ==
    LET Has(e) == e.info.key = k
    IN  SelectSeq(es, Has)

Count(es, e) == Cardinality({i \in 1..Len(es) : es[i] = e})

\* C1: each measurement key labels at most one forward/inverse edge pair,
\* and right after updateSensorData(from, to, sensorData) the edges that
\* carry the key are exactly the new edge from->to and the new edge
\* to->from, whatever edges carried the key before.
C1_KeyLabelsOnePair ==
    /\ \A i \in 1..Len(edges) :
          LET ek == EdgesWithKey(edges, edges[i].info.key)
          IN  /\ Len(ek) <= 2
              /\ Len(ek) = 2 => /\ ek[1].source = ek[2].target
                                /\ ek[1].target = ek[2].source
    /\ call.op = "updateSensorData" =>
          LET ek == EdgesWithKey(edges, call.key)
              u == vertex_by_label(vertices, call.from)
              v == vertex_by_label(vertices, call.to)
          IN  /\ Len(ek) = 2
              /\ ek[1].source = u /\ ek[1].target = v
              /\ ek[1].info.transform = call.tf
              /\ ek[2].source = v /\ ek[2].target = u

\* an update replaced an edge pair of the same key while the other key's
\* pair stayed
C1_Witness ==
    /\ call.op = "updateSensorData"
    /\ call.removed = 2
    /\ Len(edges) = 4

\* every stored edge has a stored mirror: same key, endpoints swapped,
\* inverse transform
MirrorInv(es) ==
    \A i \in 1..Len(es) : \E j \in 1..Len(es) :
        /\ es[j].source = es[i].target
        /\ es[j].target = es[i].source
        /\ es[j].info.key = es[i].info.key
        /\ es[j].info.transform = Inverse(es[i].info.transform)

\* C2 as stated: in every reachable state, removeAllEdges included, every
\* stored edge has its mirror edge.
C2_MirrorAlways == MirrorInv(edges)

\* C2 amended: every operation other than removeAllEdges keeps the mirror
\* property: from a state where every stored edge has its mirror,
\* addEntity, updateSensorData and removeEdgeByKey lead to such a state.
C2_MirrorKept ==
    [][(call'.op # "removeAllEdges" /\ MirrorInv(edges)) => MirrorInv(edges')]_vars

\* an update stored a transform that is not its own inverse, next to the
\* pair of another key, and every edge has its mirror
C2_Witness ==
    /\ call.op = "updateSensorData"
    /\ Len(edges) = 4
    /\ call.tf # Inverse(call.tf)
    /\ MirrorInv(edges)

\* C3: after removeEdgeByKey(k) no stored edge carries k and the edges of
\* any other key are stored as before, in the same order; a lookupPath or
\* canTransform that follows between registered frames returns, and its
\* path runs only over frame pairs joined by a stored edge whose key is
\* not k (canTransform is true exactly when that path is not empty).
C3_RemoveByKeyThenFindPath ==
    [][/\ call'.op = "removeEdgeByKey" =>
            LET k == call'.key
                Other(e) == e.info.key # k
            IN  /\ \A i \in 1..Len(edges') : edges'[i].info.key # k
                /\ edges' = SelectSeq(edges, Other)
                /\ vertices' = vertices
       /\ (/\ call.op = "removeEdgeByKey"
           /\ call.removed > 0
           /\ call'.op \in {"lookupPath", "canTransform"}
           /\ call'.from \in Registered
           /\ call'.to \in Registered
           /\ call'.from # call'.to) =>
            /\ status' = "ok"
            /\ \A n \in 1..(Len(call'.path) - 1) : \E i \in 1..Len(edges) :
                   /\ edges[i].info.key # call.key
                   /\ edges[i].source = vertex_by_label(vertices, call'.path[n])
                   /\ edges[i].target = vertex_by_label(vertices, call'.path[n + 1])
            /\ call'.op = "canTransform" => (call'.ok <=> call'.path # <<>>)
    ]_vars

\* C9: removeAllEdges(from, to) leaves no edge from->to, keeps every other
\* edge (the edges to->from among them) as often as it was stored, and
\* keeps the frames.
C9_RemoveAllEdges ==
    [][call'.op = "removeAllEdges" =>
        LET u == vertex_by_label(vertices, call'.from)
            v == vertex_by_label(vertices, call'.to)
        IN  /\ \A j \in 1..Len(edges') : ~(edges'[j].source = u /\ edges'[j].target = v)
            /\ \A i \in 1..Len(edges) :
                  ~(edges[i].source = u /\ edges[i].target = v)
                      => Count(edges', edges[i]) = Count(edges, edges[i])
            /\ Len(edges') <= Len(edges)
            /\ vertices' = vertices
    ]_vars

\* an edge from->to was removed and an edge to->from is still stored
C9_Witness ==
    /\ call.op = "removeAllEdges"
    /\ call.removed >= 1
    /\ call.from # call.to
    /\ \E i \in 1..Len(edges) :
          /\ edges[i].source = vertex_by_label(vertices, call.to)
          /\ edges[i].target = vertex_by_label(vertices, call.from)

\* C10: no operation removes or renumbers a frame, no name labels two
\* vertices, and addEntity of a registered name changes neither the frames
\* nor the edges.
C10_AddEntityIdempotent ==
    [][/\ Len(vertices') >= Len(vertices)
       /\ \A i \in 1..Len(vertices) : vertices'[i] = vertices[i]
       /\ \A i \in 1..Len(vertices') : \A j \in 1..Len(vertices') :
             vertices'[i] = vertices'[j] => i = j
       /\ (call'.op = "addEntity" /\ call'.from \in Range(vertices)) =>
             /\ vertices' = vertices
             /\ edges' = edges
    ]_vars

\* addEntity named a registered frame that has an edge
C10_Witness ==
    /\ call.op = "addEntity"
    /\ call.added = 0
    /\ \E i \in 1..Len(edges) : edges[i].source = vertex_by_label(vertices, call.from)

\* the vertices reachable from the vertices of S over stored edges
RECURSIVE ReachableFrom(_, _)
ReachableFrom(es, S) ==
    LET T == S \cup {es[i].target : i \in {j \in 1..Len(es) : es[j].source \in S}}
    IN  IF T = S THEN S ELSE ReachableFrom(es, T)

Joined(vs, es, a, b) ==
    \E i \in 1..Len(es) : /\ es[i].source = vertex_by_label(vs, a)
                          /\ es[i].target = vertex_by_label(vs, b)

\* the transform of the stored edge boost::edge(u, v) finds first
EdgeTransform(es, u, v) ==
    es[CHOOSE i \in 1..Len(es) :
          /\ es[i].source = u /\ es[i].target = v
          /\ \A j \in 1..(i - 1) : ~(es[j].source = u /\ es[j].target = v)].info.transform

\* T(v0->v1) * T(v1->v2) * ... from hop n on
RECURSIVE PathProduct(_, _, _, _)
PathProduct(vs, es, path, n) ==
    IF n >= Len(path) THEN Identity
    ELSE Compose(EdgeTransform(es, vertex_by_label(vs, path[n]),
                               vertex_by_label(vs, path[n + 1])),
                 PathProduct(vs, es, path, n + 1))

\* C4: when a path exists lookupTransform(from, to) returns the product,
\* in traversal order, of the stored transforms of the edges of
\* lookupPath(from, to).
C4_TransformIsPathProduct ==
    call.op = "lookupTransform" =>
        LET path == lookupPath(vertices, edges, call.from, call.to)
        IN  path # <<>> =>
               /\ status = "ok"
               /\ call.tf = PathProduct(vertices, edges, path, 1)

\* C5: for distinct names lookupPath(from, to) returns a list from `from`
\* to `to` whose consecutive frames are joined by stored edges when both
\* are registered and `to` is reachable, and the empty list when a name is
\* not registered or `to` is unreachable.
C5_FindPathContract ==
    (call.op = "lookupPath" /\ call.from # call.to) =>
        /\ status = "ok"
        /\ IF /\ call.from \in Registered
              /\ call.to \in Registered
              /\ vertex_by_label(vertices, call.to)
                    \in ReachableFrom(edges, {vertex_by_label(vertices, call.from)})
           THEN /\ Len(call.path) >= 2
                /\ call.path[1] = call.from
                /\ call.path[Len(call.path)] = call.to
                /\ \A n \in 1..(Len(call.path) - 1) :
                      Joined(vertices, edges, call.path[n], call.path[n + 1])
           ELSE call.path = <<>>

\* C6: updateSensorData and removeAllEdges called with a name that is not
\* registered return (reporting the unknown frame) with the frames and the
\* edges as they were before the call.
C6_UnknownFrameRejected ==
    [][(/\ call'.op \in {"updateSensorData", "removeAllEdges"}
        /\ (call'.from \notin Range(vertices) \/ call'.to \notin Range(vertices)))
       => /\ status' = "ok"
          /\ vertices' = vertices
          /\ edges' = edges
    ]_vars

\* between a and b there is exactly one edge a->b and one edge b->a
OnlyPair(vs, es, a, b) ==
    LET u == vertex_by_label(vs, a)
        v == vertex_by_label(vs, b)
    IN  /\ u # null_vertex /\ v # null_vertex /\ u # v
        /\ Cardinality({i \in 1..Len(es) : es[i].source = u /\ es[i].target = v}) = 1
        /\ Cardinality({i \in 1..Len(es) : es[i].source = v /\ es[i].target = u}) = 1

\* C7: with one edge pair between from and to, lookupTransform(from, to)
\* followed by lookupTransform(to, from) gives two transforms whose
\* composition is the identity, and the two edges carry the same key and
\* weight.
C7_RoundTripIdentity ==
    [][(/\ call.op = "lookupTransform" /\ status = "ok"
        /\ call'.op = "lookupTransform"
        /\ call'.from = call.to /\ call'.to = call.from
        /\ OnlyPair(vertices, edges, call.from, call.to))
       => /\ status' = "ok"
          /\ Compose(call.tf, call'.tf) = Identity
          /\ \A i \in 1..Len(edges) : \A j \in 1..Len(edges) :
                (/\ edges[i].source = edges[j].target
                 /\ edges[i].target = edges[j].source
                 /\ edges[i].source = vertex_by_label(vertices, call.from)
                 /\ edges[i].target = vertex_by_label(vertices, call.to))
                => /\ edges[i].info.key = edges[j].info.key
                   /\ edges[i].weight = edges[j].weight
    ]_vars

\* the least supplied weight of a stored edge u->v (Inf without an edge)
HopWeight(es, u, v) ==
    LET ws == {es[i].info.weight : i \in {j \in 1..Len(es) :
                                           es[j].source = u /\ es[j].target = v}}
    IN  IF ws = {} THEN Inf ELSE CHOOSE w \in ws : \A x \in ws : w <= x

Min2(a, b) == IF a <= b THEN a ELSE b

\* least cumulative supplied weight from start to every vertex, over paths
\* of at most n edges
RECURSIVE MinWeights(_, _, _, _)
MinWeights(vs, es, start, n) ==
    IF n = 0 THEN [v \in 1..Len(vs) |-> IF v = start THEN 0 ELSE Inf]
    ELSE LET D == MinWeights(vs, es, start, n - 1)
             Via(v) == {D[u] + HopWeight(es, u, v) : u \in 1..Len(vs)}
         IN  [v \in 1..Len(vs) |->
                 Min2(D[v], CHOOSE w \in Via(v) : \A x \in Via(v) : w <= x)]

RECURSIVE PathWeight(_, _, _, _)
PathWeight(vs, es, path, n) ==
    IF n >= Len(path) THEN 0
    ELSE HopWeight(es, vertex_by_label(vs, path[n]), vertex_by_label(vs, path[n + 1]))
            + PathWeight(vs, es, path, n + 1)

\* C8: the path lookupPath returns has the least cumulative weight among
\* the paths from `from` to `to`, an edge weighing what was supplied with
\* its measurement.
C8_MinimumSuppliedWeight ==
    (call.op = "lookupPath" /\ status = "ok" /\ call.path # <<>>) =>
        PathWeight(vertices, edges, call.path, 1)
            = MinWeights(vertices, edges, vertex_by_label(vertices, call.from),
                         Len(vertices))[vertex_by_label(vertices, call.to)]
\* C18: every vertex index lookupPath uses to read or write p and d is
\* smaller than the length of the arrays (the number of edges), in every
\* graph state, also with fewer edges than vertices or with no edge.
C18_IndicesInBounds ==
    (call.op = "lookupPath" /\ call.from \in Registered /\ call.to \in Registered) =>
        \A v \in IndicesUsed(vertices, call.from, call.to) :
            InBounds(v, ArrayLength(edges))

\* a step that is a call of add on channel c
AddOps == {"addScalar", "addVec3", "addQuat"}

AddStep(c) == budget' < budget /\ fcall'.op \in AddOps /\ fcall'.channel = c

\* alpha * value + (1 - alpha) * estimate, for a number and for a vector
Blend(alpha, value, estimate) ==
    RAdd(RMul(alpha, value), RMul(RSub(One, alpha), estimate))

Mix(c, alpha, value, estimate) ==
    IF c = "vec3"
    THEN [i \in 1..3 |-> Blend(alpha, value[i], estimate[i])]
    ELSE Blend(alpha, value, estimate)

\* C11: on every channel the first add(x) after construction or after a
\* reset sets the estimate to exactly x, and so does the next add(x) when
\* the timeout is not zero and the last update is at least the timeout old.
C11_FirstSampleExact ==
    [][\A c \in Channels :
         (AddStep(c) /\ (~Initialized(ema, c) \/ Expired(ema, now)))
            => /\ Accu(ema', c) = fcall'.value
               /\ Initialized(ema', c)]_vars

\* a channel that had a sample before was added to when the filter had
\* expired, and holds the new sample
C11_Witness ==
    /\ fcall.op \in AddOps
    /\ fcall.fired
    /\ fcall.prev >= 0
    /\ ema.m_alpha # One
    /\ Accu(ema, fcall.channel) = fcall.value

\* C12: staleness is tracked per channel: an add to a channel whose own
\* previous add was at least the timeout earlier is treated as a first
\* sample, even if another channel was updated more recently.
C12_StalenessPerChannel ==
    (/\ fcall.op \in AddOps
     /\ ema.m_timeout # 0
     /\ fcall.prev >= 0
     /\ fcall.lastAdd[fcall.channel] - fcall.prev >= ema.m_timeout)
        => Accu(ema, fcall.channel) = fcall.value

\* C13: with a timeout of zero an initialized channel stays initialized
\* and keeps blending over every later add, whatever the clock says; only
\* reset() makes it uninitialized again.
C13_ZeroTimeoutNeverExpires ==
    [][ema.m_timeout = 0 =>
         \A c \in Channels : Initialized(ema, c) =>
            /\ Initialized(ema', c) \/ (budget' < budget /\ fcall'.op = "reset")
            /\ AddStep(c) =>
                  Accu(ema', c) = Mix(c, ema.m_alpha, fcall'.value, Accu(ema, c))]_vars

\* with a zero timeout a channel was added to long after its previous
\* sample and did not take the new sample as it is
C13_Witness ==
    /\ ema.m_timeout = 0
    /\ fcall.op \in AddOps
    /\ fcall.prev >= 0
    /\ fcall.lastAdd[fcall.channel] - fcall.prev >= 2
    /\ Initialized(ema, fcall.channel)
    /\ Accu(ema, fcall.channel) # fcall.value

\* C14: an add to the initialized, not expired scalar channel sets the
\* estimate to alpha * value + (1 - alpha) * estimate (alpha 0.5: 10 then
\* 20 gives 15); no add and no reset changes alpha or the timeout.
C14_ScalarBlend ==
    [][/\ (AddStep("scalar") /\ Initialized(ema, "scalar") /\ ~Expired(ema, now))
            => /\ ema'.m_scalarAccu =
                     Blend(ema.m_alpha, fcall'.value, ema.m_scalarAccu)
               /\ (/\ ema.m_alpha = Rat(1, 2)
                   /\ ema.m_scalarAccu = Rat(10, 1)
                   /\ fcall'.value = Rat(20, 1)) => ema'.m_scalarAccu = Rat(15, 1)
       /\ (budget' < budget /\ fcall'.op \in AddOps \cup {"reset"})
            => ema'.m_alpha = ema.m_alpha /\ ema'.m_timeout = ema.m_timeout]_vars

\* alpha is one half and the scalar estimate is 15 after 20 was added
C14_Witness ==
    /\ fcall.op = "addScalar"
    /\ fcall.value = Rat(20, 1)
    /\ fcall.prev >= 0
    /\ ~fcall.fired
    /\ ema.m_alpha = Rat(1, 2)
    /\ ema.m_scalarAccu = Rat(15, 1)

\* C20: when the expiry check fires during an add to one channel the
\* initialized flags of all three channels are cleared (the channel added
\* to is then initialized by the sample) and the estimates of the other
\* channels keep their values; an add whose check does not fire changes
\* neither the estimate nor the flag of another channel.
C20_ExpiryClearsAllChannels ==
    [][\A c \in Channels : AddStep(c) =>
         \A o \in Channels \ {c} :
            /\ Accu(ema', o) = Accu(ema, o)
            /\ Initialized(ema', o) = (Initialized(ema, o) /\ ~Expired(ema, now))]_vars

\* the expiry check fired in an add, and another channel that holds an
\* earlier sample is no longer initialized
C20_Witness ==
    /\ fcall.op \in AddOps
    /\ fcall.fired
    /\ \E o \in Channels \ {fcall.channel} :
          /\ fcall.lastAdd[o] >= 0
          /\ ~Initialized(ema, o)
          /\ Accu(ema, o) # Accu(ExplonentialMovingAverageFilter(One, 0), o)

\* C15: meanRotation() on an averager that holds no rotation sample
\* (freshly constructed, or after reset()) reports a DegenerateAverage
\* error instead of returning a rotation.
C15_NoSampleIsAnError ==
    (mean.op = "weightedMeanQuat" /\ mean.m_quats = <<>>) => mean.error

\* a transform whose rot has not exactly 4 or whose origin has not
\* exactly 3 elements
Malformed(node) == node.rot # 4 \/ node.origin # 3

HasMalformed(doc) ==
    \/ \E i \in 1..Len(doc.entities) : \E j \in 1..Len(doc.entities[i].sensors) :
          Malformed(doc.entities[i].sensors[j])
    \/ \E i \in 1..Len(doc.markers) : Malformed(doc.markers[i].transform)

\* C16: when the document holds a malformed transform, loading aborts and
\* the configuration exposes no entity and no marker afterwards, not even
\* the entries that came before the malformed one.
C16_MalformedLoadsNothing ==
    (config.loads > 0 /\ HasMalformed(config.doc)) =>
        /\ config.threw
        /\ config.m_entities = <<>>
        /\ config.m_markers = <<>>

\* C17: removeEdgesByKey terminates on every graph state: a call takes
\* finitely many passes, at most one more than the number of edges that
\* carried the key when it was entered (one pass when no edge carries it).
C17_PassesBounded ==
    /\ loop.passes <= loop.matching + 1
    /\ loop.pc = "pass" => loop.passes <= loop.matching

\* a call that found several edges of the key has returned after its
\* second pass and no edge carries the key
C17_Witness ==
    /\ loop.pc = "returned"
    /\ loop.matching >= 2
    /\ loop.passes = 2
    /\ \A i \in 1..Len(edges) : ~RemovePredicate(loop.key, edges[i])

\* C19: for every registered frame A, lookupPath(A, A) returns the empty
\* list, so canTransform(A, A) is false, whether or not A has edges.
C19_SelfPathEmpty ==
    (/\ call.op \in {"lookupPath", "canTransform"}
     /\ call.from = call.to
     /\ call.from \in Registered) =>
        /\ status = "ok"
        /\ call.path = <<>>
        /\ ~call.ok

====
